---- MODULE Spec2Model ----
(***************************************************************************)
(* VV Maps routing engine: the mode/cost model (model/edge.go), graph      *)
(* construction (algo/graph.go) and the time-weighted shortest path search *)
(* (algo/dijkstra.go).                                                     *)
(*                                                                         *)
(* Numbers.  Distances are whole metres.  Times are exact rationals kept   *)
(* as integers in units of 1/TimeScale second, TimeScale being the least   *)
(* number that makes distance/speed whole for the five speeds; speeds are  *)
(* kept in decimetres per second.  math.Inf(1) is the value Inf, larger    *)
(* than every finite cost of the bounded model.                            *)
(***************************************************************************)
EXTENDS Integers, Sequences, FiniteSets, TLC

(***************************************************************************)
(* Bounds of the model.                                                    *)
(***************************************************************************)
MaxEdges == 3
MaxModes == 2
NumProcs == 2
MaxRuns == 3

(***************************************************************************)
(* model/edge.go: mode bits, speeds, wait times.                           *)
(***************************************************************************)
ModeWalk == 1
ModeBike == 2
ModeCar == 4
ModeBus == 8
ModeSubway == 16

SpeedWalk == 14
SpeedBike == 42
SpeedCar == 83
SpeedBus == 55
SpeedSubway == 100

TimeScale == 21 * 83 * 11 * 10

WaitTimeWalk == 0
WaitTimeBike == 30
WaitTimeCar == 60
WaitTimeBus == 300
WaitTimeSubway == 180

Inf == 2000000000

\* a & b on the five mode bits
RECURSIVE BitAnd(_, _)
BitAnd(a, b) ==
    IF a = 0 \/ b = 0 THEN 0
    ELSE (IF a % 2 = 1 /\ b % 2 = 1 THEN 1 ELSE 0) + 2 * BitAnd(a \div 2, b \div 2)

\* a | b, were the bits added
BitAdd(a, b) == a + b

\* a | b
BitOr(a, b) == a + b - BitAnd(a, b)

\* the range loop of ParseModes, from position i with the mask so far
RECURSIVE ParseModesLoop(_, _, _)
ParseModesLoop(modes, i, mask) ==
    IF i > Len(modes) THEN mask
    ELSE LET m == modes[i]
         IN ParseModesLoop(modes, i + 1,
              CASE m = "walk" -> BitOr(mask, ModeWalk)
                [] m = "bike" -> BitOr(mask, ModeBike)
                [] m = "car" -> BitOr(mask, ModeCar)
                [] m = "bus" -> BitOr(mask, ModeBus)
                [] m = "subway" -> BitOr(mask, ModeSubway)
                [] OTHER -> mask)

ParseModes(modes) == ParseModesLoop(modes, 1, 0)

GetModeSpeed(mode) ==
    CASE mode = "walk" -> SpeedWalk
      [] mode = "bike" -> SpeedBike
      [] mode = "car" -> SpeedCar
      [] mode = "bus" -> SpeedBus
      [] mode = "subway" -> SpeedSubway
      [] OTHER -> SpeedWalk

GetModeWaitTime(mode) ==
    CASE mode = "walk" -> WaitTimeWalk * TimeScale
      [] mode = "bike" -> WaitTimeBike * TimeScale
      [] mode = "car" -> WaitTimeCar * TimeScale
      [] mode = "bus" -> WaitTimeBus * TimeScale
      [] mode = "subway" -> WaitTimeSubway * TimeScale
      [] OTHER -> 0

GetModeMask(mode) ==
    CASE mode = "walk" -> ModeWalk
      [] mode = "bike" -> ModeBike
      [] mode = "car" -> ModeCar
      [] mode = "bus" -> ModeBus
      [] mode = "subway" -> ModeSubway
      [] OTHER -> 0

RECURSIVE FilterModesByMask(_, _)
FilterModesByMask(edgeModes, userModeMask) ==
    IF edgeModes = <<>> THEN <<>>
    ELSE LET mode == Head(edgeModes)
             rest == FilterModesByMask(Tail(edgeModes), userModeMask)
         IN IF BitAnd(GetModeMask(mode), userModeMask) # 0
            THEN <<mode>> \o rest ELSE rest

\* distance / speed, in time units (distance in metres, speed in dm/s)
TravelTime(distance, speed) == distance * ((10 * TimeScale) \div speed)

\* the switch below, a transit line change counted also onto an edge without line
NeedWaitSloppy(mode, prevMode, prevLineID, currentLineID) ==
    CASE mode = "walk" -> FALSE
      [] mode \in {"bike", "car"} -> prevMode # mode
      [] mode \in {"bus", "subway"} -> prevMode # mode \/ prevLineID # currentLineID
      [] OTHER -> FALSE

\* the switch of EstimateSegmentTime (lines 194-209): must this mode wait?
NeedWait(mode, prevMode, prevLineID, currentLineID) ==
    CASE mode = "walk" -> FALSE
      [] mode \in {"bike", "car"} -> prevMode # mode
      [] mode \in {"bus", "subway"} ->
            prevMode # mode \/ (prevLineID # currentLineID /\ currentLineID # "")
      [] OTHER -> FALSE

\* travelTime + waitTime of one candidate mode
ModeTotalTime(distance, mode, prevMode, prevLineID, currentLineID) ==
    TravelTime(distance, GetModeSpeed(mode))
      + (IF NeedWait(mode, prevMode, prevLineID, currentLineID)
         THEN GetModeWaitTime(mode) ELSE 0)

\* the test of line 218 with <= in place of <
BetterLast(bestTime, totalTime) == bestTime < 0 \/ totalTime <= bestTime

\* the test of line 218
Better(bestTime, totalTime) == bestTime < 0 \/ totalTime < bestTime

\* the loop over availableModes, from position i with the best so far
RECURSIVE SegmentLoop(_, _, _, _, _, _, _)
SegmentLoop(distance, availableModes, prevMode, prevLineID, currentLineID, i, best) ==
    IF i > Len(availableModes) THEN best
    ELSE LET mode == availableModes[i]
             totalTime == ModeTotalTime(distance, mode, prevMode, prevLineID, currentLineID)
             next == IF Better(best.time, totalTime)
                     THEN [time |-> totalTime, mode |-> mode] ELSE best
         IN SegmentLoop(distance, availableModes, prevMode, prevLineID, currentLineID,
                        i + 1, next)

EstimateSegmentTime(distance, availableModes, prevMode, prevLineID, currentLineID) ==
    IF Len(availableModes) = 0
    THEN [time |-> TravelTime(distance, SpeedWalk), mode |-> "walk"]
    ELSE SegmentLoop(distance, availableModes, prevMode, prevLineID, currentLineID,
                     1, [time |-> -1, mode |-> ""])

(***************************************************************************)
(* Node and edge records (model/edge.go, the Node type).  The model's map  *)
(* has three nodes on one meridian, their latitude given as metres of arc  *)
(* from node A; "X" is an ID no node carries.                              *)
(***************************************************************************)
NodeRecords ==
    << [ID |-> "A", Lat |-> 0, Lng |-> 0],
       [ID |-> "B", Lat |-> 500, Lng |-> 0],
       [ID |-> "C", Lat |-> 900, Lng |-> 0] >>

NodeIDs == {NodeRecords[i].ID : i \in 1..Len(NodeRecords)}

AllIDs == NodeIDs \cup {"X"}

Abs(x) == IF x < 0 THEN -x ELSE x

\* great-circle distance: on one meridian, the difference of latitude in
\* metres of arc
HaversineDistance(p1, p2) == Abs(p2.Lat - p1.Lat)

ReverseMarker == " (reverse)"

InputEdge(from, to, dist, modes, line, desc) ==
    [From |-> from, To |-> to, Dist |-> dist, Modes |-> modes,
     LineID |-> line, Desc |-> <<desc>>, ModeMask |-> 0]

\* the edge records a map file or the edges table may hold
EdgePool ==
    { InputEdge("A", "B", 1000, <<"bus">>, "L1", "r1"),
      InputEdge("A", "B", 600, <<"walk">>, "", "r2"),
      InputEdge("B", "C", 1000, <<"bus">>, "L1", "r3"),
      InputEdge("B", "A", 1000, <<"subway">>, "L2", "r4"),
      InputEdge("A", "X", 600, <<"walk">>, "", "r5"),
      InputEdge("X", "C", 600, <<"walk", "bus">>, "", "r6"),
      InputEdge("A", "C", 0, <<"car", "bike">>, "", "r7"),
      InputEdge("B", "A", 600, <<"walk">>, "", "r8") }

\* the ordered edge lists of at most MaxEdges different records
EdgeLists ==
    UNION { { s \in [1..n -> EdgePool] : \A i, j \in 1..n : i # j => s[i] # s[j] }
            : n \in 0..MaxEdges }

(***************************************************************************)
(* algo/graph.go: graph construction.                                      *)
(***************************************************************************)
NewGraph == [Nodes |-> <<>>, AdjList |-> [id \in AllIDs |-> <<>>]]

\* g.Nodes after the node loop: ID -> Node
RECURSIVE NodeMap(_, _)
NodeMap(nodes, i) ==
    IF i > Len(nodes) THEN <<>>
    ELSE (nodes[i].ID :> nodes[i]) @@ NodeMap(nodes, i + 1)

\* getBidirectionalModes without its filter
getBidirectionalModesAll(modes) == modes

getBidirectionalModes(modes) ==
    SelectSeq(modes, LAMBDA m : m = "walk" \/ m = "bike" \/ m = "car")

bidirectionalMask == BitOr(BitOr(ModeWalk, ModeBike), ModeCar)

\* the reverseEdge literal, were the mask of the edge copied whole
ReverseEdgeFullMask(edge) ==
    [From |-> edge.To, To |-> edge.From, Dist |-> edge.Dist,
     Modes |-> getBidirectionalModes(edge.Modes),
     ModeMask |-> edge.ModeMask,
     LineID |-> "", Desc |-> edge.Desc \o <<ReverseMarker>>]

\* the reverseEdge literal of both loaders
ReverseEdge(edge) ==
    [From |-> edge.To, To |-> edge.From, Dist |-> edge.Dist,
     Modes |-> getBidirectionalModes(edge.Modes),
     ModeMask |-> BitAnd(edge.ModeMask, bidirectionalMask),
     LineID |-> "", Desc |-> edge.Desc \o <<ReverseMarker>>]

\* the reverseExists scan of LoadFromJSON over g.AdjList[edge.To]
reverseExists(adj, edge) ==
    \E k \in 1..Len(adj[edge.To]) :
        adj[edge.To][k].From = edge.To /\ adj[edge.To][k].To = edge.From

\* A construction in progress: the graph, and a record of every reverse edge
\* made so far with the edge it was made from (kept for the properties only).
Append2(adj, id, e) == [adj EXCEPT ![id] = Append(@, e)]

\* one pass of the edge loop of LoadFromDB
DBEdgeStep(st, raw) ==
    LET edge == [raw EXCEPT !.ModeMask = ParseModes(raw.Modes)]
        adj1 == Append2(st.g.AdjList, edge.From, edge)
    IN IF BitAnd(edge.ModeMask, bidirectionalMask) # 0
       THEN [g |-> [st.g EXCEPT !.AdjList = Append2(adj1, edge.To, ReverseEdge(edge))],
             made |-> Append(st.made, [fwd |-> edge, rev |-> ReverseEdge(edge)])]
       ELSE [g |-> [st.g EXCEPT !.AdjList = adj1], made |-> st.made]

\* one pass of the edge loop of LoadFromJSON
JSONEdgeStep(st, raw) ==
    LET e1 == [raw EXCEPT !.ModeMask = ParseModes(raw.Modes)]
        resolved == e1.From \in DOMAIN st.g.Nodes /\ e1.To \in DOMAIN st.g.Nodes
        edge == IF e1.Dist = 0 /\ resolved
                THEN [e1 EXCEPT !.Dist = HaversineDistance(st.g.Nodes[e1.From],
                                                           st.g.Nodes[e1.To])]
                ELSE e1
        adj1 == Append2(st.g.AdjList, edge.From, edge)
    IN IF BitAnd(edge.ModeMask, bidirectionalMask) # 0 /\ ~reverseExists(adj1, edge)
       THEN [g |-> [st.g EXCEPT !.AdjList = Append2(adj1, edge.To, ReverseEdge(edge))],
             made |-> Append(st.made, [fwd |-> edge, rev |-> ReverseEdge(edge)])]
       ELSE [g |-> [st.g EXCEPT !.AdjList = adj1], made |-> st.made]

RECURSIVE DBEdgeLoop(_, _, _)
DBEdgeLoop(st, edges, i) ==
    IF i > Len(edges) THEN st ELSE DBEdgeLoop(DBEdgeStep(st, edges[i]), edges, i + 1)

RECURSIVE JSONEdgeLoop(_, _, _)
JSONEdgeLoop(st, edges, i) ==
    IF i > Len(edges) THEN st ELSE JSONEdgeLoop(JSONEdgeStep(st, edges[i]), edges, i + 1)

BuildStart(nodes) == [g |-> [NewGraph EXCEPT !.Nodes = NodeMap(nodes, 1)], made |-> <<>>]

BuildFromDB(nodes, edges) == DBEdgeLoop(BuildStart(nodes), edges, 1)

BuildFromJSON(nodes, edges) == JSONEdgeLoop(BuildStart(nodes), edges, 1)

\* the filter of GetNeighbors, = in place of & ... != 0
GetNeighborsExact(g, nodeID, modeMask) ==
    SelectSeq(g.AdjList[nodeID], LAMBDA edge : edge.ModeMask = modeMask)

GetNeighbors(g, nodeID, modeMask) ==
    SelectSeq(g.AdjList[nodeID], LAMBDA edge : BitAnd(edge.ModeMask, modeMask) # 0)

(***************************************************************************)
(* algo/dijkstra.go: the priority queue (container/heap over Less, Swap,   *)
(* Push, Pop).  Positions are those of the Go slice, from 0.               *)
(***************************************************************************)
Less(pq, i, j) == pq[i + 1].Cost < pq[j + 1].Cost

Swap(pq, i, j) == [pq EXCEPT ![i + 1] = pq[j + 1], ![j + 1] = pq[i + 1]]

\* heap.up
RECURSIVE HeapUp(_, _)
HeapUp(pq, j) ==
    LET i == (j - 1) \div 2
    IN IF j = 0 \/ i = j \/ ~Less(pq, j, i) THEN pq ELSE HeapUp(Swap(pq, i, j), i)

\* heap.down over the first n positions
RECURSIVE HeapDown(_, _, _)
HeapDown(pq, i, n) ==
    LET j1 == 2 * i + 1
        j2 == j1 + 1
        j == IF j2 < n /\ Less(pq, j2, j1) THEN j2 ELSE j1
    IN IF j1 >= n THEN pq
       ELSE IF ~Less(pq, j, i) THEN pq
       ELSE HeapDown(Swap(pq, i, j), j, n)

HeapPush(pq, item) == HeapUp(Append(pq, item), Len(pq))

\* heap.Pop: the item removed and the queue left
HeapPop(pq) ==
    LET n == Len(pq) - 1
        h == HeapDown(Swap(pq, 0, n), 0, n)
    IN [item |-> h[n + 1], pq |-> SubSeq(h, 1, n)]

(***************************************************************************)
(* algo/dijkstra.go: Graph.Dijkstra.  A Go map read of a missing key gives *)
(* the zero value: 0 for timeCost, "" for prev, nil for prevEdge.          *)
(***************************************************************************)
NilEdge == [nil |-> TRUE]

NotFound ==
    [Path |-> <<>>, Segments |-> <<>>, Distance |-> 0, EstimatedTime |-> 0, Found |-> FALSE]

NoResult == [none |-> TRUE]

MapGet(m, k, zero) == IF k \in DOMAIN m THEN m[k] ELSE zero

Idle == [pc |-> "idle"]

\* the locals after lines 80-100
StartLocals(g, startID, endID, modeMask) ==
    [pc |-> "loop", startID |-> startID, endID |-> endID, modeMask |-> modeMask,
     timeCost |-> [id \in DOMAIN g.Nodes |-> IF id = startID THEN 0 ELSE Inf],
     prev |-> <<>>, prevEdge |-> <<>>, prevMode |-> <<>>, prevLineID |-> <<>>,
     visited |-> {},
     pq |-> HeapPush(<<>>, [NodeID |-> startID, Cost |-> 0, Mode |-> "", LineID |-> ""]),
     order |-> <<>>,
     result |-> NoResult]

\* timeCost[id], were a missing key read as unreached
TimeCostOfInf(loc, id) == MapGet(loc.timeCost, id, Inf)

\* timeCost[id]
TimeCostOf(loc, id) == MapGet(loc.timeCost, id, 0)

\* the relaxation test of line 140
Faster(newCost, old) == newCost < old

\* the mode/line an edge is priced with, were the arrival mode dropped
RelaxContextNoMode(current) == [Mode |-> "", LineID |-> current.LineID]

\* the mode/line an edge is priced with during the search (lines 132-133)
RelaxContext(current) == [Mode |-> current.Mode, LineID |-> current.LineID]

\* the body of the neighbour loop (lines 120-152) for one edge
RelaxEdge(loc, current, edge) ==
    LET neighborID == edge.To
        availableModes == FilterModesByMask(edge.Modes, loc.modeMask)
        ctx == RelaxContext(current)
        est == EstimateSegmentTime(edge.Dist, availableModes, ctx.Mode, ctx.LineID,
                                   edge.LineID)
        newCost == TimeCostOf(loc, current.NodeID) + est.time
    IN IF Len(availableModes) = 0 THEN loc
       ELSE IF Faster(newCost, TimeCostOf(loc, neighborID))
       THEN [loc EXCEPT
               !.timeCost = (neighborID :> newCost) @@ @,
               !.prev = (neighborID :> current.NodeID) @@ @,
               !.prevEdge = (neighborID :> edge) @@ @,
               !.prevMode = (neighborID :> est.mode) @@ @,
               !.prevLineID = (neighborID :> edge.LineID) @@ @,
               !.pq = HeapPush(@, [NodeID |-> neighborID, Cost |-> newCost,
                                   Mode |-> est.mode, LineID |-> edge.LineID])]
       ELSE loc

RECURSIVE RelaxLoop(_, _, _, _)
RelaxLoop(loc, current, edges, i) ==
    IF i > Len(edges) THEN loc
    ELSE RelaxLoop(RelaxEdge(loc, current, edges[i]), current, edges, i + 1)

\* the path loop of lines 162-168, before the reversal; steps bounds the walk
RECURSIVE BackTrack(_, _, _, _)
BackTrack(loc, at, path, steps) ==
    IF at = "" \/ steps = 0 THEN path
    ELSE IF at = loc.startID THEN Append(path, at)
    ELSE BackTrack(loc, MapGet(loc.prev, at, ""), Append(path, at), steps - 1)

\* slices.Reverse left out
ReverseNot(s) == s

Reverse(s) == [i \in 1..Len(s) |-> s[Len(s) + 1 - i]]

\* the running mode/line after a segment, the line not carried over
NextContextNoLine(usedMode, edge) == [Mode |-> usedMode, LineID |-> ""]

NextContext(usedMode, edge) == [Mode |-> usedMode, LineID |-> edge.LineID]

\* the segment loop of lines 177-207 from position i (of the Go slice)
RECURSIVE SegmentsLoop(_, _, _, _, _)
SegmentsLoop(loc, path, i, ctx, acc) ==
    IF i >= Len(path) - 1 THEN acc
    ELSE LET fromID == path[i + 1]
             toID == path[i + 2]
             edge == MapGet(loc.prevEdge, toID, NilEdge)
         IN IF edge = NilEdge THEN SegmentsLoop(loc, path, i + 1, ctx, acc)
            ELSE LET actualModes == FilterModesByMask(edge.Modes, loc.modeMask)
                     est == EstimateSegmentTime(edge.Dist, actualModes, ctx.Mode,
                                                ctx.LineID, edge.LineID)
                     seg == [FromID |-> fromID, ToID |-> toID, Distance |-> edge.Dist,
                             Time |-> est.time, Modes |-> actualModes,
                             UsedMode |-> est.mode, LineID |-> edge.LineID,
                             Desc |-> edge.Desc]
                 IN SegmentsLoop(loc, path, i + 1, NextContext(est.mode, edge),
                        [Segments |-> Append(acc.Segments, seg),
                         Distance |-> acc.Distance + edge.Dist,
                         EstimatedTime |-> acc.EstimatedTime + est.time])

\* a not-found result that keeps the end node in Path
NotFoundDirty(loc) == [NotFound EXCEPT !.Path = <<loc.endID>>]

NotFoundResult(loc) == NotFound

\* lines 156-216
BuildResult(loc) ==
    IF TimeCostOf(loc, loc.endID) = Inf THEN NotFoundResult(loc)
    ELSE LET path == Reverse(BackTrack(loc, loc.endID, <<>>, Cardinality(AllIDs) + 1))
             tot == SegmentsLoop(loc, path, 0, [Mode |-> "", LineID |-> ""],
                        [Segments |-> <<>>, Distance |-> 0, EstimatedTime |-> 0])
         IN [Path |-> path, Segments |-> tot.Segments, Distance |-> tot.Distance,
             EstimatedTime |-> tot.EstimatedTime, Found |-> TRUE]

\* one pass of the main loop, were popped nodes not checked against visited
LoopStepNoVisited(g, loc) ==
    LET popped == HeapPop(loc.pq)
        current == popped.item
        currentID == current.NodeID
        l1 == [loc EXCEPT !.pq = popped.pq]
        l2 == [l1 EXCEPT !.visited = @ \cup {currentID}, !.order = Append(@, current)]
    IN IF currentID = loc.endID THEN [l2 EXCEPT !.pc = "after"]
       ELSE RelaxLoop(l2, current, GetNeighbors(g, currentID, loc.modeMask), 1)

\* one pass of the main loop, were the loop not left at the end node
LoopStepNoBreak(g, loc) ==
    LET popped == HeapPop(loc.pq)
        current == popped.item
        currentID == current.NodeID
        l1 == [loc EXCEPT !.pq = popped.pq]
        l2 == [l1 EXCEPT !.visited = @ \cup {currentID}, !.order = Append(@, current)]
    IN IF currentID \in loc.visited THEN l1
       ELSE RelaxLoop(l2, current, GetNeighbors(g, currentID, loc.modeMask), 1)

\* one pass of the main loop (lines 103-154)
LoopStep(g, loc) ==
    LET popped == HeapPop(loc.pq)
        current == popped.item
        currentID == current.NodeID
        l1 == [loc EXCEPT !.pq = popped.pq]
        l2 == [l1 EXCEPT !.visited = @ \cup {currentID}, !.order = Append(@, current)]
    IN IF currentID \in loc.visited THEN l1
       ELSE IF currentID = loc.endID THEN [l2 EXCEPT !.pc = "after"]
       ELSE RelaxLoop(l2, current, GetNeighbors(g, currentID, loc.modeMask), 1)

\* the whole call, run alone: what Graph.Dijkstra returns
RECURSIVE RunLoop(_, _)
RunLoop(g, loc) ==
    IF loc.pc = "loop" /\ Len(loc.pq) > 0 THEN RunLoop(g, LoopStep(g, loc)) ELSE loc

Dijkstra(g, startID, endID, modeMask) ==
    IF startID \notin DOMAIN g.Nodes \/ endID \notin DOMAIN g.Nodes THEN NotFound
    ELSE BuildResult(RunLoop(g, StartLocals(g, startID, endID, modeMask)))

(***************************************************************************)
(* The state machine.                                                      *)
(*   input  the edge records handed to the loader (file or edges table)    *)
(*   Graph  handler.Graph, nil until a loader has returned                 *)
(*   made   the reverse edges made during construction, each with the edge *)
(*          it was made from (history, read by the properties only)        *)
(*   inv    the calls of Graph.Dijkstra: each call's position and locals   *)
(*   seg    a call of EstimateSegmentTime: its arguments and its result    *)
(*   srv    the server process: what the loader returned to main, whether  *)
(*          main serves or has exited, the request handled and its answer  *)
(*   parse  two calls of ParseModes: their arguments and their results     *)
(*   db     the nodes and edges tables of the database                     *)
(* Each call of Graph.Dijkstra also keeps, for the properties only, the    *)
(* queue items that finalized a node, in order (order).                    *)
(***************************************************************************)
VARIABLES input, Graph, made, inv, seg, srv, parse, db

vars == <<input, Graph, made, inv, seg, srv, parse, db>>

NoDB == [none |-> TRUE]

NoSrv == [none |-> TRUE]

NoParse == [none |-> TRUE]

NilGraph == [nil |-> TRUE]

Procs == 1..NumProcs

QueryMasks == {0, ModeWalk, ModeBus, BitOr(ModeWalk, ModeBus), 31}

NoSeg == [none |-> TRUE]

LoadFromJSON ==
    /\ Graph = NilGraph
    /\ LET b == BuildFromJSON(NodeRecords, input)
       IN Graph' = b.g /\ made' = b.made
    /\ UNCHANGED <<input, inv, seg, srv, parse, db>>

LoadFromDB ==
    /\ Graph = NilGraph
    /\ LET b == BuildFromDB(NodeRecords, input)
       IN Graph' = b.g /\ made' = b.made
    /\ UNCHANGED <<input, inv, seg, srv, parse, db>>

\* the state of every call after call p takes a step of the main loop, were
\* the visited set one table shared by all calls
StepProcShared(all, g, p) ==
    LET everyone == UNION {IF all[q].pc = "idle" THEN {} ELSE all[q].visited
                           : q \in DOMAIN all}
        mine == LoopStep(g, [all[p] EXCEPT !.visited = everyone])
    IN [all EXCEPT ![p] = mine]

\* the state of every call after call p takes a step of the main loop
StepProc(all, g, p) == [all EXCEPT ![p] = LoopStep(g, all[p])]

\* lines 75-77: an endpoint is no node
DijkstraRejects(p, startIDs, endIDs, masks) ==
    /\ Graph # NilGraph
    /\ inv[p].pc = "idle"
    /\ \E startID \in startIDs, endID \in endIDs, modeMask \in masks :
         /\ startID \notin DOMAIN Graph.Nodes \/ endID \notin DOMAIN Graph.Nodes
         /\ inv' = [inv EXCEPT ![p] =
                      [pc |-> "done", startID |-> startID, endID |-> endID,
                       modeMask |-> modeMask, timeCost |-> <<>>, prev |-> <<>>,
                       prevEdge |-> <<>>, prevMode |-> <<>>, prevLineID |-> <<>>,
                       visited |-> {}, pq |-> <<>>, order |-> <<>>, result |-> NotFound]]
    /\ UNCHANGED <<input, Graph, made, seg, srv, parse, db>>

\* lines 79-100
DijkstraBegin(p, startIDs, endIDs, masks) ==
    /\ Graph # NilGraph
    /\ inv[p].pc = "idle"
    /\ \E startID \in startIDs, endID \in endIDs, modeMask \in masks :
         /\ startID \in DOMAIN Graph.Nodes /\ endID \in DOMAIN Graph.Nodes
         /\ inv' = [inv EXCEPT ![p] = StartLocals(Graph, startID, endID, modeMask)]
    /\ UNCHANGED <<input, Graph, made, seg, srv, parse, db>>

Running(p) == inv[p].pc = "loop" /\ Len(inv[p].pq) > 0

\* a pass that pops an already visited node (lines 108-110)
DijkstraSkip(p) ==
    /\ Running(p)
    /\ HeapPop(inv[p].pq).item.NodeID \in inv[p].visited
    /\ inv' = StepProc(inv, Graph, p)
    /\ UNCHANGED <<input, Graph, made, seg, srv, parse, db>>

\* the pass that pops the end node (lines 111-116)
DijkstraArrive(p) ==
    /\ Running(p)
    /\ HeapPop(inv[p].pq).item.NodeID \notin inv[p].visited
    /\ HeapPop(inv[p].pq).item.NodeID = inv[p].endID
    /\ inv' = StepProc(inv, Graph, p)
    /\ UNCHANGED <<input, Graph, made, seg, srv, parse, db>>

\* a pass that relaxes the popped node's edges (lines 111-153)
DijkstraExpand(p) ==
    /\ Running(p)
    /\ HeapPop(inv[p].pq).item.NodeID \notin inv[p].visited
    /\ HeapPop(inv[p].pq).item.NodeID # inv[p].endID
    /\ inv' = StepProc(inv, Graph, p)
    /\ UNCHANGED <<input, Graph, made, seg, srv, parse, db>>

\* lines 156-216, after the loop has ended
DijkstraReturn(p) ==
    /\ inv[p].pc = "after" \/ (inv[p].pc = "loop" /\ Len(inv[p].pq) = 0)
    /\ inv' = [inv EXCEPT ![p] = [inv[p] EXCEPT !.pc = "done",
                                            !.result = BuildResult(inv[p])]]
    /\ UNCHANGED <<input, Graph, made, seg, srv, parse, db>>

(***************************************************************************)
(* Spec: one construction by either loader, then one query.                *)
(***************************************************************************)
Init ==
    /\ input \in EdgeLists
    /\ Graph = NilGraph
    /\ made = <<>>
    /\ inv = [p \in Procs |-> Idle]
    /\ seg = NoSeg
    /\ srv = NoSrv
    /\ parse = NoParse
    /\ db = NoDB

Next ==
    \/ LoadFromJSON
    \/ LoadFromDB
    \/ DijkstraRejects(1, AllIDs, AllIDs, QueryMasks)
    \/ DijkstraBegin(1, AllIDs, AllIDs, QueryMasks)
    \/ DijkstraSkip(1)
    \/ DijkstraArrive(1)
    \/ DijkstraExpand(1)
    \/ DijkstraReturn(1)

Spec == Init /\ [][Next]_vars

(***************************************************************************)
(* SpecLive: one construction, then one query that runs on: a pass of the  *)
(* loop or the return that can be taken is taken eventually.               *)
(***************************************************************************)
DijkstraRuns ==
    DijkstraSkip(1) \/ DijkstraArrive(1) \/ DijkstraExpand(1) \/ DijkstraReturn(1)

\* edge lists with a cycle, with parallel edges and with a cycle of
\* zero-cost edges (a walk of distance 0 and the reverse edge made from it)
LiveInputs ==
    { << InputEdge("A", "B", 1000, <<"bus">>, "L1", "r1"),
         InputEdge("A", "B", 600, <<"walk">>, "", "r2"),
         InputEdge("B", "C", 1000, <<"bus">>, "L1", "r3") >>,
      << InputEdge("A", "B", 0, <<"walk">>, "", "z1"),
         InputEdge("B", "A", 600, <<"walk">>, "", "r8"),
         InputEdge("B", "C", 1000, <<"bus">>, "L1", "r3") >>,
      << InputEdge("A", "C", 0, <<"car", "bike">>, "", "r7"),
         InputEdge("A", "B", 600, <<"walk">>, "", "r2"),
         InputEdge("B", "A", 1000, <<"subway">>, "L2", "r4") >> }

InitLive ==
    /\ input \in LiveInputs
    /\ Graph = NilGraph
    /\ made = <<>>
    /\ inv = [p \in Procs |-> Idle]
    /\ seg = NoSeg
    /\ srv = NoSrv
    /\ parse = NoParse
    /\ db = NoDB

\* the call has begun and has not returned: exactly then a pass of the loop
\* or the return can be taken, and each of them changes the call's state
Executing == inv[1].pc \in {"loop", "after"}

\* weak fairness of the running call, WF_vars(DijkstraRuns), with
\* ENABLED <<DijkstraRuns>>_vars written as the state predicate Executing
RunsOn == []<>(~Executing) \/ []<><<DijkstraRuns>>_vars

SpecLive == InitLive /\ [][Next]_vars /\ RunsOn

(***************************************************************************)
(* SpecConc: NumProcs queries running at once on one graph.                *)
(***************************************************************************)
ConcInputs ==
    { << InputEdge("A", "B", 1000, <<"bus">>, "L1", "r1"),
         InputEdge("A", "B", 600, <<"walk">>, "", "r2"),
         InputEdge("B", "C", 1000, <<"bus">>, "L1", "r3") >>,
      << InputEdge("B", "A", 1000, <<"subway">>, "L2", "r4"),
         InputEdge("A", "B", 600, <<"walk">>, "", "r2"),
         InputEdge("X", "C", 600, <<"walk", "bus">>, "", "r6") >> }

ConcMasks == {ModeBus, BitOr(ModeWalk, ModeBus)}

InitConc ==
    /\ input \in ConcInputs
    /\ Graph = NilGraph
    /\ made = <<>>
    /\ inv = [p \in Procs |-> Idle]
    /\ seg = NoSeg
    /\ srv = NoSrv
    /\ parse = NoParse
    /\ db = NoDB

NextConc ==
    \/ LoadFromJSON
    \/ LoadFromDB
    \/ \E p \in Procs :
         \/ DijkstraRejects(p, {"A"}, {"C", "X"}, ConcMasks)
         \/ DijkstraBegin(p, {"A"}, {"C", "X"}, ConcMasks)
         \/ DijkstraSkip(p)
         \/ DijkstraArrive(p)
         \/ DijkstraExpand(p)
         \/ DijkstraReturn(p)

SpecConc == InitConc /\ [][NextConc]_vars

(***************************************************************************)
(* SpecSeg: one call of EstimateSegmentTime on arguments of bounded size.  *)
(***************************************************************************)
ModeNames == {"walk", "bike", "car", "bus", "subway"}

ModeLists == UNION { [1..n -> ModeNames] : n \in 0..MaxModes }

SegDistances == {0, 600, 1000}

LineIDs == {"", "L1", "L2"}

SegInputs ==
    [distance : SegDistances, availableModes : ModeLists,
     prevMode : ModeNames \cup {""}, prevLineID : LineIDs, currentLineID : LineIDs]

InitSeg ==
    /\ input = <<>>
    /\ Graph = NilGraph
    /\ made = <<>>
    /\ inv = [p \in Procs |-> Idle]
    /\ seg \in [in : SegInputs, out : {NoSeg}]
    /\ srv = NoSrv
    /\ parse = NoParse
    /\ db = NoDB

CallEstimateSegmentTime ==
    /\ seg.out = NoSeg
    /\ seg' = [seg EXCEPT !.out = EstimateSegmentTime(seg.in.distance,
                  seg.in.availableModes, seg.in.prevMode, seg.in.prevLineID,
                  seg.in.currentLineID)]
    /\ UNCHANGED <<input, Graph, made, inv, srv, parse, db>>

NextSeg == CallEstimateSegmentTime

SpecSeg == InitSeg /\ [][NextSeg]_vars

(***************************************************************************)
(* The loaders with their failures (algo/graph.go), the FindPath handler   *)
(* (handler package) and main (main.go).                                   *)
(***************************************************************************)
\* what can fail in a loader: reading the file and parsing it (LoadFromJSON),
\* the node query and the edge query (LoadFromDB); "" is no failure
JSONFaults == {"", "read", "parse"}

DBFaults == {"", "nodes", "edges"}

\* LoadFromDB, were the graph built so far returned with the error
LoadFromDBPartial(nodes, edges, fault) ==
    IF fault = "nodes" THEN [g |-> NewGraph, err |-> "nodes"]
    ELSE IF fault = "edges" THEN [g |-> BuildStart(nodes).g, err |-> "edges"]
    ELSE [g |-> BuildFromDB(nodes, edges).g, err |-> ""]

\* the pair (graph, error) LoadFromDB returns
LoadFromDBReturn(nodes, edges, fault) ==
    IF fault = "nodes" THEN [g |-> NilGraph, err |-> "nodes"]
    ELSE IF fault = "edges" THEN [g |-> NilGraph, err |-> "edges"]
    ELSE [g |-> BuildFromDB(nodes, edges).g, err |-> ""]

\* the pair (graph, error) LoadFromJSON returns
LoadFromJSONReturn(nodes, edges, fault) ==
    IF fault = "read" THEN [g |-> NilGraph, err |-> "read"]
    ELSE IF fault = "parse" THEN [g |-> NilGraph, err |-> "parse"]
    ELSE [g |-> BuildFromJSON(nodes, edges).g, err |-> ""]

\* the node IDs FindNearestNode may return: a nearest node, whichever the
\* iteration over the map meets first among equally near ones; {} is nil
FindNearestNode(g, lat, lng) ==
    LET dist(id) == HaversineDistance([Lat |-> lat, Lng |-> lng], g.Nodes[id])
    IN { id \in DOMAIN g.Nodes : \A o \in DOMAIN g.Nodes : dist(id) <= dist(o) }

\* lines 72-87: the ID taken from the request, or the nearest node's when
\* the request carries coordinates
SnapIDs(g, id, lat, lng) ==
    IF lat # 0 /\ lng # 0 /\ FindNearestNode(g, lat, lng) # {}
    THEN FindNearestNode(g, lat, lng)
    ELSE {id}

NoCall == [none |-> TRUE]

NoReq == [none |-> TRUE]

NoResp == [none |-> TRUE]

NoRet == [none |-> TRUE]

ErrorResponse(status) == [status |-> status, called |-> NoCall, body |-> NoResult]

\* c.ShouldBindJSON: the body must carry a modes array
ShouldBindJSON(req) == req.HasModes

\* lines 89-172, were the allowed modes not checked
FindPathNoModeCheck(g, req, startID, endID) ==
    IF startID = "" \/ endID = "" THEN ErrorResponse(400)
    ELSE IF startID \notin DOMAIN g.Nodes THEN ErrorResponse(400)
    ELSE IF endID \notin DOMAIN g.Nodes THEN ErrorResponse(400)
    ELSE LET modeMask == ParseModes(req.Modes)
             result == Dijkstra(g, startID, endID, modeMask)
         IN [status |-> 200,
             called |-> [startID |-> startID, endID |-> endID, modeMask |-> modeMask],
             body |-> IF result.Found THEN result ELSE NotFound]

\* lines 89-172, were the end node not looked up
FindPathNoEndCheck(g, req, startID, endID) ==
    IF startID = "" \/ endID = "" THEN ErrorResponse(400)
    ELSE IF startID \notin DOMAIN g.Nodes THEN ErrorResponse(400)
    ELSE LET modeMask == ParseModes(req.Modes)
         IN IF modeMask = 0 THEN ErrorResponse(400)
            ELSE LET result == Dijkstra(g, startID, endID, modeMask)
                 IN [status |-> 200,
                     called |-> [startID |-> startID, endID |-> endID,
                                 modeMask |-> modeMask],
                     body |-> IF result.Found THEN result ELSE NotFound]

\* lines 89-172: the answer once startID and endID are settled
FindPathWith(g, req, startID, endID) ==
    IF startID = "" \/ endID = "" THEN ErrorResponse(400)
    ELSE IF startID \notin DOMAIN g.Nodes THEN ErrorResponse(400)
    ELSE IF endID \notin DOMAIN g.Nodes THEN ErrorResponse(400)
    ELSE LET modeMask == ParseModes(req.Modes)
         IN IF modeMask = 0 THEN ErrorResponse(400)
            ELSE LET result == Dijkstra(g, startID, endID, modeMask)
                 IN [status |-> 200,
                     called |-> [startID |-> startID, endID |-> endID,
                                 modeMask |-> modeMask],
                     body |-> IF result.Found THEN result ELSE NotFound]

\* the request bodies a client may send
RequestModes == {<<>>, <<"train">>, <<"walk">>, <<"bus", "walk">>}

Requests ==
    { r \in [StartID : {"", "A", "X"}, EndID : {"", "A", "C", "X"},
             StartLat : {0, 700}, StartLng : {0, 1},
             EndLat : {0, 700}, EndLng : {0, 1},
             Modes : RequestModes, HasModes : BOOLEAN] :
        /\ ~r.HasModes => r.Modes = <<>>
        /\ r.StartLat = 0 => r.StartLng = 0
        /\ r.EndLat = 0 => r.EndLng = 0 }

\* the handler, from the request to the response
FindPath ==
    /\ srv # NoSrv
    /\ srv.resp = NoResp
    /\ \E req \in Requests :
         IF ~ShouldBindJSON(req)
         THEN srv' = [srv EXCEPT !.req = req, !.resp = ErrorResponse(400)]
         ELSE IF Graph = NilGraph
         THEN srv' = [srv EXCEPT !.req = req, !.resp = ErrorResponse(500)]
         ELSE \E startID \in SnapIDs(Graph, req.StartID, req.StartLat, req.StartLng),
                 endID \in SnapIDs(Graph, req.EndID, req.EndLat, req.EndLng) :
                srv' = [srv EXCEPT !.req = req,
                                   !.resp = FindPathWith(Graph, req, startID, endID)]
    /\ UNCHANGED <<input, Graph, made, inv, seg, parse, db>>

\* main.go line 24: main calls LoadFromDB, which returns
MainLoadFromDB ==
    /\ srv.phase = "boot"
    /\ \E fault \in DBFaults :
         srv' = [srv EXCEPT !.phase = "returned",
                            !.ret = LoadFromDBReturn(NodeRecords, input, fault)]
    /\ UNCHANGED <<input, Graph, made, inv, seg, parse, db>>

\* a program other than main calls LoadFromJSON, which returns
CallLoadFromJSON ==
    /\ srv.phase = "boot"
    /\ \E fault \in JSONFaults :
         srv' = [srv EXCEPT !.phase = "library",
                            !.ret = LoadFromJSONReturn(NodeRecords, input, fault)]
    /\ UNCHANGED <<input, Graph, made, inv, seg, parse, db>>

\* main.go lines 25-27: log.Fatalf ends the process
MainFatal ==
    /\ srv.phase = "returned"
    /\ srv.ret.err # ""
    /\ srv' = [srv EXCEPT !.phase = "exited"]
    /\ UNCHANGED <<input, Graph, made, inv, seg, parse, db>>

\* main.go lines 28-48: handler.Graph is set and the server runs
MainPublish ==
    /\ srv.phase = "returned"
    /\ srv.ret.err = ""
    /\ Graph' = srv.ret.g
    /\ srv' = [srv EXCEPT !.phase = "serving"]
    /\ UNCHANGED <<input, made, inv, seg, parse, db>>

\* the running server hands a request to the handler
Serve == srv.phase = "serving" /\ FindPath

(***************************************************************************)
(* SpecBoot: main from the start of the process to its first answer, and   *)
(* a direct call of LoadFromJSON.                                          *)
(***************************************************************************)
BootInputs ==
    ConcInputs \cup
    { <<>>,
      << InputEdge("A", "C", 0, <<"car", "bike">>, "", "r7"),
         InputEdge("A", "X", 600, <<"walk">>, "", "r5") >> }

InitBoot ==
    /\ input \in BootInputs
    /\ Graph = NilGraph
    /\ made = <<>>
    /\ inv = [p \in Procs |-> Idle]
    /\ seg = NoSeg
    /\ srv = [phase |-> "boot", ret |-> NoRet, req |-> NoReq, resp |-> NoResp]
    /\ parse = NoParse
    /\ db = NoDB

NextBoot ==
    \/ MainLoadFromDB
    \/ CallLoadFromJSON
    \/ MainFatal
    \/ MainPublish
    \/ Serve

SpecBoot == InitBoot /\ [][NextBoot]_vars

(***************************************************************************)
(* SpecHTTP: the handler package on its own: the graph is set by either    *)
(* loader or left nil, one request reaches FindPath, and one direct call   *)
(* of Graph.Dijkstra is made.                                              *)
(***************************************************************************)
DirectMasks == {0, BitOr(ModeWalk, ModeBus)}

InitHTTP ==
    /\ input \in BootInputs
    /\ Graph = NilGraph
    /\ made = <<>>
    /\ inv = [p \in Procs |-> Idle]
    /\ seg = NoSeg
    /\ srv = [phase |-> "handler", ret |-> NoRet, req |-> NoReq, resp |-> NoResp]
    /\ parse = NoParse
    /\ db = NoDB

\* a request is handled while no direct call is under way
HandleRequest == inv[1].pc \in {"idle", "done"} /\ FindPath

NextHTTP ==
    \/ LoadFromJSON
    \/ LoadFromDB
    \/ HandleRequest
    \/ DijkstraRejects(1, {"A"}, AllIDs, DirectMasks)
    \/ DijkstraBegin(1, {"A"}, AllIDs, DirectMasks)
    \/ DijkstraSkip(1)
    \/ DijkstraArrive(1)
    \/ DijkstraExpand(1)
    \/ DijkstraReturn(1)

SpecHTTP == InitHTTP /\ [][NextHTTP]_vars

(***************************************************************************)
(* SpecParse: two calls of ParseModes on lists of names of bounded length, *)
(* names that are no mode among them.                                      *)
(***************************************************************************)
ParseNames == ModeNames \cup {"train", "Walk"}

ParseLists == UNION { [1..n -> ParseNames] : n \in 0..MaxModes }

InitParse ==
    /\ input = <<>>
    /\ Graph = NilGraph
    /\ made = <<>>
    /\ inv = [p \in Procs |-> Idle]
    /\ seg = NoSeg
    /\ srv = NoSrv
    /\ parse \in [a : ParseLists, b : ParseLists, outA : {<<>>}, outB : {<<>>}]
    /\ db = NoDB

CallParseModesA ==
    /\ parse.outA = <<>>
    /\ parse' = [parse EXCEPT !.outA = <<ParseModes(parse.a)>>]
    /\ UNCHANGED <<input, Graph, made, inv, seg, srv, db>>

CallParseModesB ==
    /\ parse.outB = <<>>
    /\ parse' = [parse EXCEPT !.outB = <<ParseModes(parse.b)>>]
    /\ UNCHANGED <<input, Graph, made, inv, seg, srv, db>>

NextParse == CallParseModesA \/ CallParseModesB

SpecParse == InitParse /\ [][NextParse]_vars

(***************************************************************************)
(* SpecPerm: Spec on edge lists whose mode lists hold names that are no    *)
(* mode, repeated names, and one-way next to two-way modes.                *)
(***************************************************************************)
PermInputs ==
    { << InputEdge("A", "B", 600, <<"train", "walk", "bus">>, "", "m1"),
         InputEdge("B", "C", 1000, <<"bus", "bus", "car">>, "L1", "m2") >>,
      << InputEdge("A", "B", 600, <<"train">>, "", "m3"),
         InputEdge("B", "A", 600, <<"walk", "subway">>, "L2", "m4"),
         InputEdge("A", "C", 1000, <<"bus", "walk">>, "", "m5") >>,
      << InputEdge("A", "B", 1000, <<"bus">>, "L1", "r1"),
         InputEdge("A", "B", 600, <<"walk">>, "", "r2"),
         InputEdge("B", "C", 1000, <<"bus">>, "L1", "r3") >> }

InitPerm ==
    /\ input \in PermInputs
    /\ Graph = NilGraph
    /\ made = <<>>
    /\ inv = [p \in Procs |-> Idle]
    /\ seg = NoSeg
    /\ srv = NoSrv
    /\ parse = NoParse
    /\ db = NoDB

SpecPerm == InitPerm /\ [][Next]_vars

(***************************************************************************)
(* db/db.go: InitDB and importMapData, and SpecDB: the process started up  *)
(* to MaxRuns times on one database that is empty at first.  input is the  *)
(* edge list of map_data.json, NodeRecords its node list.                  *)
(***************************************************************************)
\* what can fail in importMapData: reading the file, parsing it, the insert
\* of the nodes, the insert of the edges; "" is no failure
ImportFaults == {"", "read", "parse", "nodes", "edges"}

\* importMapData (lines 77-129): the tables and the error it leaves; a
\* failed CreateInBatches inserts nothing
importMapData(store, nodes, edges, fault) ==
    IF fault \in {"read", "parse"} THEN [db |-> store, err |-> fault]
    ELSE IF Len(nodes) > 0 /\ fault = "nodes" THEN [db |-> store, err |-> "nodes"]
    ELSE LET s1 == [store EXCEPT !.nodes = @ \o nodes]
         IN IF Len(edges) > 0 /\ fault = "edges" THEN [db |-> s1, err |-> "edges"]
            ELSE [db |-> [s1 EXCEPT !.edges = @ \o edges], err |-> ""]

\* InitDB lines 31-51: no connection or a failed migration ends the process
InitDBFatal ==
    /\ srv.phase = "start"
    /\ srv' = [srv EXCEPT !.phase = "exited", !.imported = "fatal"]
    /\ UNCHANGED <<input, Graph, made, inv, seg, parse, db>>

\* InitDB lines 53-66: the import runs iff the nodes table is empty, and its
\* failure is only logged
InitDB ==
    /\ srv.phase = "start"
    /\ IF Len(db.nodes) = 0
       THEN \E fault \in ImportFaults :
               LET r == importMapData(db, NodeRecords, input, fault)
               IN /\ db' = r.db
                  /\ srv' = [srv EXCEPT !.phase = "boot", !.imported = r.err]
       ELSE /\ db' = db
            /\ srv' = [srv EXCEPT !.phase = "boot", !.imported = "skipped"]
    /\ UNCHANGED <<input, Graph, made, inv, seg, parse>>

\* main.go line 24: LoadFromDB reads the two tables and returns
MainLoadFromTables ==
    /\ srv.phase = "boot"
    /\ \E fault \in DBFaults :
         srv' = [srv EXCEPT !.phase = "returned",
                            !.ret = LoadFromDBReturn(db.nodes, db.edges, fault)]
    /\ UNCHANGED <<input, Graph, made, inv, seg, parse, db>>

\* the process, ended or stopped, is started again; the database stays
Restart ==
    /\ srv.phase \in {"exited", "serving"}
    /\ srv.run < MaxRuns
    /\ srv' = [phase |-> "start", run |-> srv.run + 1, imported |-> "none",
               ret |-> NoRet, req |-> NoReq, resp |-> NoResp]
    /\ Graph' = NilGraph
    /\ UNCHANGED <<input, made, inv, seg, parse, db>>

InitStore ==
    /\ input \in BootInputs
    /\ Graph = NilGraph
    /\ made = <<>>
    /\ inv = [p \in Procs |-> Idle]
    /\ seg = NoSeg
    /\ srv = [phase |-> "start", run |-> 1, imported |-> "none",
              ret |-> NoRet, req |-> NoReq, resp |-> NoResp]
    /\ parse = NoParse
    /\ db = [nodes |-> <<>>, edges |-> <<>>]

NextDB ==
    \/ InitDBFatal
    \/ InitDB
    \/ MainLoadFromTables
    \/ MainFatal
    \/ MainPublish
    \/ Restart

SpecDB == InitStore /\ [][NextDB]_vars

(***************************************************************************)
(* Notions the properties are stated in.                                   *)
(***************************************************************************)
Done(p) == inv[p].pc = "done"

Res(p) == inv[p].result

Min(S) == CHOOSE x \in S : \A y \in S : x <= y

SeqSum(s) ==
    LET sum[i \in 0..Len(s)] == IF i = 0 THEN 0 ELSE sum[i - 1] + s[i]
    IN sum[Len(s)]

\* the least total time over the paths from at to end that visit no node
\* twice and use only edges the mask admits, each edge priced by
\* EstimateSegmentTime in the mode/line state left by the edge before it;
\* Inf when there is no such path
RECURSIVE PathMin(_, _, _, _, _, _)
PathMin(g, at, end, mask, seen, ctx) ==
    IF at = end THEN 0
    ELSE LET edges == GetNeighbors(g, at, mask)
             via(e) ==
                 LET est == EstimateSegmentTime(e.Dist, FilterModesByMask(e.Modes, mask),
                                                ctx.Mode, ctx.LineID, e.LineID)
                     rest == PathMin(g, e.To, end, mask, seen \cup {e.To},
                                     [Mode |-> est.mode, LineID |-> e.LineID])
                 IN IF rest = Inf THEN Inf ELSE est.time + rest
         IN Min({Inf} \cup {via(edges[i]) : i \in {k \in 1..Len(edges) : edges[k].To \notin seen}})

\* the nodes a walk from the set reached can get to over admitted edges,
\* stepping only onto the IDs in allowed
RECURSIVE ReachSet(_, _, _, _)
ReachSet(g, mask, allowed, reached) ==
    LET more == {id \in allowed :
                    \E from \in reached : \E k \in 1..Len(g.AdjList[from]) :
                        /\ g.AdjList[from][k].To = id
                        /\ BitAnd(g.AdjList[from][k].ModeMask, mask) # 0}
    IN IF more \subseteq reached THEN reached
       ELSE ReachSet(g, mask, allowed, reached \cup more)

\* end can be reached from start over admitted adjacency-list edges
ReachableAny(g, startID, endID, mask) == endID \in ReachSet(g, mask, AllIDs, {startID})

\* the same, every node on the way being a node of the graph
ReachableKnown(g, startID, endID, mask) ==
    endID \in ReachSet(g, mask, DOMAIN g.Nodes, {startID})

KnownQuery(p) ==
    /\ Done(p)
    /\ inv[p].startID \in DOMAIN Graph.Nodes
    /\ inv[p].endID \in DOMAIN Graph.Nodes

Bidirectional == {"walk", "bike", "car"}

ModeSet(modes) == {modes[i] : i \in 1..Len(modes)}

(***************************************************************************)
(* C1 (as claimed): whenever a query with a non-zero mask is answered      *)
(* Found, EstimatedTime is the least total time over all admitted paths    *)
(* from start to end.  The search keeps one label per node, so it fails.   *)
(***************************************************************************)
C1_MinimumTime ==
    (KnownQuery(1) /\ inv[1].modeMask # 0 /\ Res(1).Found) =>
        Res(1).EstimatedTime =
            PathMin(Graph, inv[1].startID, inv[1].endID, inv[1].modeMask,
                    {inv[1].startID}, [Mode |-> "", LineID |-> ""])

(***************************************************************************)
(* C2 (as claimed): for existing endpoints and a non-zero mask, Found iff  *)
(* the end is reachable over admitted adjacency-list edges.                *)
(***************************************************************************)
C2_FoundIffReachable ==
    (KnownQuery(1) /\ inv[1].modeMask # 0) =>
        (Res(1).Found <=>
            ReachableAny(Graph, inv[1].startID, inv[1].endID, inv[1].modeMask))

(***************************************************************************)
(* C2 (amended): for existing endpoints and a non-zero mask, Found iff the *)
(* end is reachable over admitted adjacency-list edges by a path all of    *)
(* whose nodes are nodes of the graph.                                     *)
(***************************************************************************)
C2_FoundIffReachableKnown ==
    (KnownQuery(1) /\ inv[1].modeMask # 0) =>
        (Res(1).Found <=>
            ReachableKnown(Graph, inv[1].startID, inv[1].endID, inv[1].modeMask))

\* C2: a query answered not found although edges lead to the end through an
\* ID that is no node
C2_Witness ==
    /\ KnownQuery(1) /\ inv[1].modeMask # 0
    /\ ~Res(1).Found
    /\ ReachableAny(Graph, inv[1].startID, inv[1].endID, inv[1].modeMask)

(***************************************************************************)
(* C3: a query with a missing endpoint or an unreachable end returns       *)
(* Found = FALSE with empty Path and Segments and zero totals.             *)
(***************************************************************************)
C3_NotFoundIsEmpty ==
    Done(1) =>
        /\ ( \/ inv[1].startID \notin DOMAIN Graph.Nodes
             \/ inv[1].endID \notin DOMAIN Graph.Nodes
             \/ ~ReachableKnown(Graph, inv[1].startID, inv[1].endID, inv[1].modeMask) )
           => ~Res(1).Found
        /\ ~Res(1).Found =>
             /\ Res(1).Path = <<>> /\ Res(1).Segments = <<>>
             /\ Res(1).Distance = 0 /\ Res(1).EstimatedTime = 0

\* C3: a search that ran over a non-empty graph and ended without reaching
\* the end node
C3_Witness ==
    /\ KnownQuery(1) /\ inv[1].modeMask # 0
    /\ Cardinality(inv[1].visited) >= 2
    /\ ~Res(1).Found

(***************************************************************************)
(* C4 (as claimed): after construction, every input edge with a mode in    *)
(* {walk, bike, car} has in AdjList[To] an edge To -> From whose mode set  *)
(* is exactly its modes within {walk, bike, car}.                          *)
(***************************************************************************)
C4_ReverseEdgeExists ==
    Graph # NilGraph =>
        \A i \in 1..Len(input) :
            LET e == input[i]
            IN ModeSet(e.Modes) \cap Bidirectional # {} =>
                 \E k \in 1..Len(Graph.AdjList[e.To]) :
                    LET r == Graph.AdjList[e.To][k]
                    IN /\ r.From = e.To /\ r.To = e.From
                       /\ ModeSet(r.Modes) = ModeSet(e.Modes) \cap Bidirectional

(***************************************************************************)
(* C5 (as claimed): no reverse edge is made for a pair of endpoints for    *)
(* which the input holds an edge, wherever that edge stands in the input.  *)
(***************************************************************************)
C5_NoDuplicateReverse ==
    Graph # NilGraph =>
        \A k \in 1..Len(made) :
            ~\E i \in 1..Len(input) :
                input[i].From = made[k].rev.From /\ input[i].To = made[k].rev.To

(***************************************************************************)
(* C6: every reverse edge made during construction stands in AdjList of    *)
(* its From, has only modes of {walk, bike, car}, the forward edge's mask  *)
(* restricted to walk|bike|car, the forward edge's stored distance and the *)
(* forward description with the marker appended; and its forward edge has  *)
(* a mode of {walk, bike, car}.                                            *)
(***************************************************************************)
C6_SynthesizedEdgeShape ==
    Graph # NilGraph =>
        \A k \in 1..Len(made) :
            LET f == made[k].fwd
                r == made[k].rev
            IN /\ \E j \in 1..Len(Graph.AdjList[f.From]) : Graph.AdjList[f.From][j] = f
               /\ \E j \in 1..Len(Graph.AdjList[f.To]) : Graph.AdjList[f.To][j] = r
               /\ r.From = f.To /\ r.To = f.From
               /\ ModeSet(r.Modes) \subseteq Bidirectional
               /\ ModeSet(r.Modes) = ModeSet(f.Modes) \cap Bidirectional
               /\ r.ModeMask = BitAnd(f.ModeMask, 7)
               /\ BitAnd(r.ModeMask, 24) = 0
               /\ r.Dist = f.Dist
               /\ r.Desc = f.Desc \o <<ReverseMarker>>
               /\ ModeSet(f.Modes) \cap Bidirectional # {}

\* C6: a reverse edge made from an edge that also carries a bus
C6_Witness ==
    /\ Graph # NilGraph
    /\ \E k \in 1..Len(made) :
          "bus" \in ModeSet(made[k].fwd.Modes) /\ made[k].rev.Modes = <<"walk">>

(***************************************************************************)
(* C7: the wait of a candidate mode is 0 for walk; for bike and car the    *)
(* mode's wait time iff the previous mode differs; for bus and subway the  *)
(* mode's wait time iff the previous mode differs or the line changes to a *)
(* non-empty line.  So the returned time is the chosen mode's travel time  *)
(* plus exactly that wait: the full wait time on a change of mode, none on *)
(* the same mode and line.                                                 *)
(***************************************************************************)
ClaimedWait(m, in) ==
    CASE m = "walk" -> 0
      [] m \in {"bike", "car"} ->
            IF in.prevMode # m THEN GetModeWaitTime(m) ELSE 0
      [] m \in {"bus", "subway"} ->
            IF in.prevMode # m \/ (in.prevLineID # in.currentLineID /\ in.currentLineID # "")
            THEN GetModeWaitTime(m) ELSE 0
      [] OTHER -> 0

SegTotal(m, in) ==
    ModeTotalTime(in.distance, m, in.prevMode, in.prevLineID, in.currentLineID)

C7_WaitPenalty ==
    (seg # NoSeg /\ seg.out # NoSeg) =>
        LET in == seg.in
            m == seg.out.mode
            travel(x) == TravelTime(in.distance, GetModeSpeed(x))
        IN /\ \A i \in 1..Len(in.availableModes) :
                 SegTotal(in.availableModes[i], in)
                    = travel(in.availableModes[i]) + ClaimedWait(in.availableModes[i], in)
           /\ seg.out.time = travel(m) + ClaimedWait(m, in)
           /\ m # in.prevMode => seg.out.time = travel(m) + GetModeWaitTime(m)
           /\ (m = in.prevMode /\ in.prevLineID = in.currentLineID) =>
                 seg.out.time = travel(m)

\* C7: a bus segment after a bus segment of another line, the current edge
\* carrying no line: no wait is charged
C7_Witness ==
    /\ seg # NoSeg /\ seg.out # NoSeg
    /\ seg.out.mode = "bus" /\ seg.in.prevMode = "bus"
    /\ seg.in.prevLineID = "L1" /\ seg.in.currentLineID = ""
    /\ seg.in.distance > 0
    /\ seg.out.time = TravelTime(seg.in.distance, SpeedBus)

(***************************************************************************)
(* C8: for a non-empty list the result is the first mode of the list that  *)
(* attains the least travel time plus wait, with that least total; for an  *)
(* empty list it is walking at distance / walking speed.                   *)
(***************************************************************************)
C8_MinimalModeFirst ==
    (seg # NoSeg /\ seg.out # NoSeg) =>
        LET in == seg.in
            modes == in.availableModes
        IN IF Len(modes) = 0
           THEN seg.out = [time |-> in.distance * ((10 * TimeScale) \div 14), mode |-> "walk"]
           ELSE \E i \in 1..Len(modes) :
                  /\ seg.out.mode = modes[i]
                  /\ seg.out.time = SegTotal(modes[i], in)
                  /\ \A j \in 1..Len(modes) : SegTotal(modes[j], in) >= seg.out.time
                  /\ \A j \in 1..(i - 1) : SegTotal(modes[j], in) > seg.out.time

\* C8: two different modes attain the least total and the earlier is returned
C8_Witness ==
    /\ seg # NoSeg /\ seg.out # NoSeg
    /\ Len(seg.in.availableModes) >= 2
    /\ seg.in.availableModes[1] # seg.in.availableModes[2]
    /\ SegTotal(seg.in.availableModes[1], seg.in) = SegTotal(seg.in.availableModes[2], seg.in)
    /\ seg.out.mode = seg.in.availableModes[1]
    /\ seg.out.time = SegTotal(seg.in.availableModes[2], seg.in)

(***************************************************************************)
(* C9: in a found route whose segments all use bus (or all subway) on one  *)
(* non-empty line, the first segment's time is travel plus one wait, every *)
(* later segment's time is its travel time alone, and EstimatedTime is the *)
(* sum of the travel times plus one wait.                                  *)
(***************************************************************************)
OneLineRoute(r, m, line) ==
    /\ r.Found /\ Len(r.Segments) >= 1
    /\ line # ""
    /\ \A i \in 1..Len(r.Segments) :
          r.Segments[i].UsedMode = m /\ r.Segments[i].LineID = line

C9_SingleWaitOnLine ==
    Done(1) =>
        \A m \in {"bus", "subway"}, line \in {"L1", "L2"} :
            OneLineRoute(Res(1), m, line) =>
                LET segs == Res(1).Segments
                    travel == [i \in 1..Len(segs) |->
                                 TravelTime(segs[i].Distance, GetModeSpeed(m))]
                IN /\ segs[1].Time = travel[1] + GetModeWaitTime(m)
                   /\ \A i \in 2..Len(segs) : segs[i].Time = travel[i]
                   /\ Res(1).EstimatedTime = SeqSum(travel) + GetModeWaitTime(m)

\* C9: two 1000 m bus edges of line L1: 2 * (1000 / 5.5) + 300 seconds
C9_Witness ==
    /\ Done(1)
    /\ OneLineRoute(Res(1), "bus", "L1")
    /\ Len(Res(1).Segments) = 2
    /\ Res(1).Segments[1].Distance = 1000 /\ Res(1).Segments[2].Distance = 1000
    /\ 11 * Res(1).EstimatedTime = (2 * 2000 + 11 * 300) * TimeScale

(***************************************************************************)
(* C10: with several queries running at once, no step of a query changes   *)
(* the graph, a step of one query changes no other query's tables, and     *)
(* each query returns what Graph.Dijkstra returns for its arguments when   *)
(* run alone.                                                              *)
(***************************************************************************)
C10_ConcurrentQueries ==
    [][ /\ Graph # NilGraph => (Graph' = Graph /\ made' = made)
        /\ \A p \in Procs : inv'[p] # inv[p] => \A q \in Procs \ {p} : inv'[q] = inv[q]
        /\ \A p \in Procs :
              inv'[p].pc = "done" =>
                 inv'[p].result = Dijkstra(Graph', inv'[p].startID, inv'[p].endID,
                                           inv'[p].modeMask) ]_vars

\* C10: two queries both in the middle of their search
C10_Witness ==
    /\ Graph # NilGraph
    /\ \A p \in {1, 2} :
          inv[p].pc = "loop" /\ inv[p].visited # {} /\ Len(inv[p].pq) > 0
    /\ inv[1].visited # inv[2].visited

(***************************************************************************)
(* C11: a loader that returns an error returns no graph; a loader that     *)
(* returns no error returns a graph holding every input node and every     *)
(* input edge; main publishes handler.Graph and serves requests only after *)
(* a construction without error.                                           *)
(***************************************************************************)
HoldsEdge(g, e) ==
    \E k \in 1..Len(g.AdjList[e.From]) :
        LET st == g.AdjList[e.From][k]
        IN /\ st.From = e.From /\ st.To = e.To /\ st.Modes = e.Modes
           /\ st.LineID = e.LineID /\ st.Desc = e.Desc

C11_ConstructionAllOrNothing ==
    srv.ret # NoRet =>
        /\ srv.ret.err # "" => srv.ret.g = NilGraph
        /\ srv.ret.err = "" =>
              /\ srv.ret.g # NilGraph
              /\ \A i \in 1..Len(NodeRecords) :
                    /\ NodeRecords[i].ID \in DOMAIN srv.ret.g.Nodes
                    /\ srv.ret.g.Nodes[NodeRecords[i].ID] = NodeRecords[i]
              /\ \A i \in 1..Len(input) : HoldsEdge(srv.ret.g, input[i])
        /\ (Graph # NilGraph \/ srv.phase = "serving" \/ srv.req # NoReq) =>
              srv.ret.err = "" /\ Graph = srv.ret.g

C11_Witness ==
    /\ srv # NoSrv
    /\ srv.phase = "exited"
    /\ srv.ret.err = "edges"
    /\ Len(input) > 0
    /\ Graph = NilGraph


(***************************************************************************)
(* C12 as stated: Graph.Dijkstra with modeMask = 0 returns Found=false for *)
(* every start and end, start = end included, and FindPath answers a       *)
(* request whose modes parse to mask 0 with an error.                      *)
(***************************************************************************)
EmptyModesRejected ==
    (srv.resp # NoResp /\ ParseModes(srv.req.Modes) = 0) =>
        /\ srv.resp.status # 200
        /\ srv.resp.called = NoCall
        /\ srv.resp.body = NoResult

C12_EmptyModesNeverFound ==
    /\ (Done(1) /\ inv[1].modeMask = 0) => ~Res(1).Found
    /\ EmptyModesRejected

(***************************************************************************)
(* C12, amended: Graph.Dijkstra with modeMask = 0 returns Found=false for  *)
(* every start and end that differ, and for start = end an existing node   *)
(* it returns the one-node route; FindPath answers a request whose modes   *)
(* parse to mask 0 with an error and does not call Graph.Dijkstra.         *)
(***************************************************************************)
C12_EmptyModesNoRouteBetweenNodes ==
    /\ (Done(1) /\ inv[1].modeMask = 0) =>
          IF inv[1].startID = inv[1].endID /\ inv[1].startID \in DOMAIN Graph.Nodes
          THEN Res(1).Found /\ Res(1).Path = <<inv[1].startID>>
          ELSE ~Res(1).Found
    /\ EmptyModesRejected

C12_Witness ==
    /\ Done(1)
    /\ inv[1].modeMask = 0
    /\ inv[1].startID = "A"
    /\ inv[1].endID = "B"
    /\ Len(Graph.AdjList["A"]) > 0
    /\ srv.resp # NoResp
    /\ srv.req.Modes = <<"train">>
    /\ srv.req.StartID = "A"
    /\ srv.req.EndID = "C"
    /\ srv.resp.status = 400

(***************************************************************************)
(* C19: whenever FindPath calls Graph.Dijkstra the graph is not nil, the   *)
(* start and end IDs passed are non-empty keys of Graph.Nodes and the mask *)
(* passed is the non-zero mask of the request's modes; a request for which *)
(* one of these fails is answered with an error and Graph.Dijkstra is not  *)
(* called.                                                                 *)
(***************************************************************************)
ValidID(id) == id # "" /\ id \in DOMAIN Graph.Nodes

C19_ValidatedBeforeSearch ==
    srv.resp # NoResp =>
        LET req == srv.req
            called == srv.resp.called
            starts == SnapIDs(Graph, req.StartID, req.StartLat, req.StartLng)
            ends == SnapIDs(Graph, req.EndID, req.EndLat, req.EndLng)
        IN /\ called # NoCall =>
                 /\ req.HasModes
                 /\ Graph # NilGraph
                 /\ called.startID \in starts /\ ValidID(called.startID)
                 /\ called.endID \in ends /\ ValidID(called.endID)
                 /\ called.modeMask # 0
                 /\ called.modeMask = ParseModes(req.Modes)
                 /\ srv.resp.status = 200
           /\ ( \/ ~req.HasModes
                \/ Graph = NilGraph
                \/ ParseModes(req.Modes) = 0
                \/ \A id \in starts : ~ValidID(id)
                \/ \A id \in ends : ~ValidID(id) ) =>
                 /\ srv.resp.status \in {400, 500}
                 /\ called = NoCall
                 /\ srv.resp.body = NoResult
           /\ called = NoCall => srv.resp.status \in {400, 500}

C19_Witness ==
    /\ srv.resp # NoResp
    /\ srv.req.StartID = "X"
    /\ srv.req.StartLat # 0
    /\ srv.req.EndID = "C"
    /\ srv.resp.called # NoCall
    /\ srv.resp.called.startID = "B"
    /\ srv.resp.body.Found


(***************************************************************************)
(* C13: an edge naming an ID that is no node is stored by construction,    *)
(* and no query traverses it: every node ID of a returned Path is a key of *)
(* Graph.Nodes and no returned segment starts or ends at an unknown ID,    *)
(* reverse edges made from such edges included.                            *)
(***************************************************************************)
C13_UnknownNodesNeverTraversed ==
    /\ Graph # NilGraph => \A i \in 1..Len(input) : HoldsEdge(Graph, input[i])
    /\ Done(1) =>
          /\ \A i \in 1..Len(Res(1).Path) : Res(1).Path[i] \in DOMAIN Graph.Nodes
          /\ \A i \in 1..Len(Res(1).Segments) :
                /\ Res(1).Segments[i].FromID \in DOMAIN Graph.Nodes
                /\ Res(1).Segments[i].ToID \in DOMAIN Graph.Nodes

\* C13: a route found from a node that also has an admitted edge into an
\* ID that is no node, on a graph holding a reverse edge made from it
C13_Witness ==
    /\ Done(1)
    /\ Res(1).Found
    /\ Len(Res(1).Path) >= 2
    /\ \E j \in 1..Len(Graph.AdjList[inv[1].startID]) :
          LET e == Graph.AdjList[inv[1].startID][j]
          IN e.To \notin DOMAIN Graph.Nodes /\ BitAnd(e.ModeMask, inv[1].modeMask) # 0
    /\ \E k \in 1..Len(made) : made[k].rev.From \notin DOMAIN Graph.Nodes

(***************************************************************************)
(* C14: after construction by either loader an input edge with distance 0  *)
(* whose endpoints are both nodes is stored with the great-circle distance *)
(* of its endpoints and the reverse edge made from it carries the same     *)
(* distance; a non-zero distance is kept; a zero distance with an endpoint *)
(* that is no node stays 0.                                                *)
(***************************************************************************)
C14_ZeroDistanceDerived ==
    Graph # NilGraph =>
        \A i \in 1..Len(input) :
            LET e == input[i]
                resolved == e.From \in DOMAIN Graph.Nodes /\ e.To \in DOMAIN Graph.Nodes
                want == IF e.Dist = 0 /\ resolved
                        THEN HaversineDistance(Graph.Nodes[e.From], Graph.Nodes[e.To])
                        ELSE e.Dist
            IN /\ \E j \in 1..Len(Graph.AdjList[e.From]) :
                      Graph.AdjList[e.From][j].Desc = e.Desc
               /\ \A j \in 1..Len(Graph.AdjList[e.From]) :
                      Graph.AdjList[e.From][j].Desc = e.Desc =>
                          Graph.AdjList[e.From][j].Dist = want
               /\ \A k \in 1..Len(made) :
                      made[k].fwd.Desc = e.Desc => made[k].rev.Dist = want


(***************************************************************************)
(* C15: ParseModes depends only on the set of recognised names in its      *)
(* argument: two lists with the same recognised names, in any order and    *)
(* with any repetitions, give the same mask; the mask has exactly the bits *)
(* of the names among walk, bike, car, bus and subway that occur, and any  *)
(* other name sets no bit.                                                 *)
(***************************************************************************)
BitOfName ==
    [n \in ModeNames |->
        CASE n = "walk" -> ModeWalk [] n = "bike" -> ModeBike [] n = "car" -> ModeCar
          [] n = "bus" -> ModeBus [] n = "subway" -> ModeSubway]

Recognised(modes) == ModeSet(modes) \cap ModeNames

C15_ParseModesOfNameSet ==
    /\ parse.outA # <<>> =>
          /\ parse.outA[1] \in 0..31
          /\ \A n \in ModeNames :
                BitAnd(parse.outA[1], BitOfName[n]) # 0 <=> n \in ModeSet(parse.a)
    /\ (parse.outA # <<>> /\ parse.outB # <<>>
            /\ Recognised(parse.a) = Recognised(parse.b)) => parse.outA = parse.outB

\* C15: a repeated name and a name that is no mode against the plain list
C15_Witness ==
    /\ parse.a \in {<<"walk", "walk">>, <<"train", "walk">>}
    /\ parse.b = <<"walk">>
    /\ parse.outA = <<ModeWalk>>
    /\ parse.outB = <<ModeWalk>>


(***************************************************************************)
(* C16: on every found route the mode and line an edge of the path is      *)
(* priced with during reconstruction are the mode and line of the queue    *)
(* item that finalized the edge's source node, so each segment's Time and  *)
(* UsedMode are the values computed when the edge was relaxed, and         *)
(* EstimatedTime equals timeCost[endID].                                   *)
(***************************************************************************)
FinalItem(l, id) == l.order[CHOOSE k \in 1..Len(l.order) : l.order[k].NodeID = id]

C16_ReconstructionMatchesRelaxation ==
    (Done(1) /\ Res(1).Found) =>
        LET l == inv[1]
            r == Res(1)
        IN /\ r.EstimatedTime = TimeCostOf(l, l.endID)
           /\ Len(r.Segments) = Len(r.Path) - 1
           /\ \A i \in 1..Len(r.Segments) :
                 LET sg == r.Segments[i]
                     edge == l.prevEdge[sg.ToID]
                     it == FinalItem(l, sg.FromID)
                     ctx == IF i = 1 THEN [Mode |-> "", LineID |-> ""]
                            ELSE [Mode |-> r.Segments[i - 1].UsedMode,
                                  LineID |-> r.Segments[i - 1].LineID]
                     est == EstimateSegmentTime(edge.Dist,
                                FilterModesByMask(edge.Modes, l.modeMask),
                                it.Mode, it.LineID, edge.LineID)
                 IN /\ sg.FromID = r.Path[i] /\ sg.ToID = r.Path[i + 1]
                    /\ \E k \in 1..Len(l.order) : l.order[k].NodeID = sg.FromID
                    /\ ctx.Mode = it.Mode /\ ctx.LineID = it.LineID
                    /\ sg.Time = est.time /\ sg.UsedMode = est.mode
                    /\ sg.Time = l.timeCost[sg.ToID] - l.timeCost[sg.FromID]
                    /\ sg.UsedMode = l.prevMode[sg.ToID]

\* C16: a route whose second edge is priced in the mode and on the line of
\* the first
C16_Witness ==
    /\ Done(1)
    /\ Res(1).Found
    /\ Len(Res(1).Segments) = 2
    /\ Res(1).Segments[1].UsedMode = "bus"
    /\ Res(1).Segments[2].UsedMode = "bus"
    /\ Res(1).Segments[2].LineID = Res(1).Segments[1].LineID
    /\ Res(1).Segments[2].LineID # ""

(***************************************************************************)
(* C17: in every pass of the main loop a node is finalized at most once,   *)
(* nodes are finalized in non-decreasing order of cost, the item that      *)
(* finalizes a node carries the node's current timeCost, prevMode and      *)
(* prevLineID, an item popped for a visited node is skipped with no other  *)
(* change, and the timeCost, prev, prevEdge, prevMode and prevLineID of a  *)
(* finalized node never change.                                            *)
(***************************************************************************)
Labels(l, id) ==
    <<TimeCostOf(l, id), MapGet(l.prev, id, ""), MapGet(l.prevEdge, id, NilEdge),
      MapGet(l.prevMode, id, ""), MapGet(l.prevLineID, id, "")>>

LabelSettingStep(l, n) ==
    /\ (l.pc = "loop" /\ n.pc \in {"loop", "after"}) =>
          LET popped == HeapPop(l.pq)
              it == popped.item
          IN IF it.NodeID \in l.visited
             THEN n = [l EXCEPT !.pq = popped.pq]
             ELSE /\ n.visited = l.visited \cup {it.NodeID}
                  /\ n.order = Append(l.order, it)
                  /\ it.Cost = TimeCostOf(l, it.NodeID)
                  /\ it.Mode = MapGet(l.prevMode, it.NodeID, "")
                  /\ it.LineID = MapGet(l.prevLineID, it.NodeID, "")
                  /\ \A k \in 1..Len(l.order) :
                        /\ l.order[k].Cost <= it.Cost
                        /\ l.order[k].NodeID # it.NodeID
    /\ (l.pc \in {"loop", "after"} /\ n.pc # "idle") =>
          \A id \in l.visited : Labels(n, id) = Labels(l, id) /\ id \in n.visited

C17_LabelSetting == [][LabelSettingStep(inv[1], inv'[1])]_vars

\* C17: a stale item is about to be popped: the queue's head names a node
\* that is visited already
C17_Witness ==
    /\ inv[1].pc = "loop"
    /\ Len(inv[1].pq) > 0
    /\ inv[1].pq[1].NodeID \in inv[1].visited
    /\ Len(inv[1].order) >= 2

(***************************************************************************)
(* C20: a found route is well formed: Path starts with startID, ends with  *)
(* endID and holds no node twice; there is one segment per step of Path,   *)
(* segment i from Path[i] to Path[i+1], with the distance and line ID of   *)
(* an edge stored in AdjList[Path[i]] that leads to Path[i+1] and whose    *)
(* ModeMask meets the allowed mask; Distance and EstimatedTime are the     *)
(* sums over the segments; for startID = endID the route is Path =         *)
(* [startID] with no segment and zero totals.                              *)
(***************************************************************************)
C20_RouteWellFormed ==
    /\ (Done(1) /\ Res(1).Found) =>
          LET l == inv[1]
              r == Res(1)
          IN /\ Len(r.Path) >= 1
             /\ r.Path[1] = l.startID
             /\ r.Path[Len(r.Path)] = l.endID
             /\ \A i, j \in 1..Len(r.Path) : i # j => r.Path[i] # r.Path[j]
             /\ Len(r.Segments) = Len(r.Path) - 1
             /\ \A i \in 1..Len(r.Segments) :
                   LET sg == r.Segments[i]
                   IN /\ sg.FromID = r.Path[i]
                      /\ sg.ToID = r.Path[i + 1]
                      /\ \E k \in 1..Len(Graph.AdjList[r.Path[i]]) :
                            LET e == Graph.AdjList[r.Path[i]][k]
                            IN /\ e.To = r.Path[i + 1]
                               /\ BitAnd(e.ModeMask, l.modeMask) # 0
                               /\ e.Dist = sg.Distance
                               /\ e.LineID = sg.LineID
             /\ r.Distance = SeqSum([i \in 1..Len(r.Segments) |-> r.Segments[i].Distance])
             /\ r.EstimatedTime = SeqSum([i \in 1..Len(r.Segments) |-> r.Segments[i].Time])
    /\ (Done(1) /\ inv[1].startID = inv[1].endID
            /\ inv[1].startID \in DOMAIN Graph.Nodes) =>
          /\ Res(1).Found
          /\ Res(1).Path = <<inv[1].startID>>
          /\ Res(1).Segments = <<>>
          /\ Res(1).Distance = 0
          /\ Res(1).EstimatedTime = 0

\* C20: a route of three nodes
C20_Witness ==
    /\ Done(1)
    /\ Res(1).Found
    /\ Len(Res(1).Path) = 3
    /\ Res(1).Path[1] # Res(1).Path[3]
    /\ Res(1).Distance > 0


(***************************************************************************)
(* C18: every call of Graph.Dijkstra returns.  The loop is left when the   *)
(* end node is popped and marked visited, after which no node is expanded  *)
(* and no label changes, or when the queue is empty; a pass pushes an item *)
(* only with a strict decrease of a node's timeCost, no timeCost ever      *)
(* grows, and the queue never holds more items than the start item and one *)
(* per stored edge.                                                        *)
(***************************************************************************)
StoredEdges(g) ==
    SeqSum([i \in 1..Len(NodeRecords) |-> Len(g.AdjList[NodeRecords[i].ID])])

TerminationStep(l, n) ==
    /\ (l.pc = "loop" /\ n.pc \in {"loop", "after"}) =>
          /\ Len(l.pq) > 0
          /\ Len(n.pq) >= Len(l.pq) - 1
          /\ Len(n.pq) <= 1 + StoredEdges(Graph)
          /\ Len(n.pq) > Len(l.pq) - 1 =>
                \E id \in DOMAIN l.timeCost : n.timeCost[id] < l.timeCost[id]
          /\ \A id \in DOMAIN l.timeCost : n.timeCost[id] <= l.timeCost[id]
          /\ DOMAIN n.timeCost = DOMAIN l.timeCost
          /\ n.pc = "after" <=> (l.endID \in n.visited)
    /\ (l.pc = "loop" /\ n.pc = "done") => Len(l.pq) = 0 /\ l.endID \notin l.visited
    /\ (l.pc = "after") => n = [l EXCEPT !.pc = "done", !.result = n.result]
    /\ (l.pc \in {"loop", "after"} /\ l.endID \in l.visited) =>
          /\ n.pc = "done"
          /\ n.visited = l.visited
          /\ \A id \in AllIDs : Labels(n, id) = Labels(l, id)

C18_Terminates ==
    /\ [][TerminationStep(inv[1], inv'[1])]_vars
    /\ (inv[1].pc = "loop") ~> (inv[1].pc = "done")

\* C18: the end node was popped while the queue still held items, on a
\* graph with a cycle of zero-cost edges, and the call has returned
C18_Witness ==
    /\ Done(1)
    /\ inv[1].endID \in inv[1].visited
    /\ Len(inv[1].pq) > 0
    /\ \E a, b \in NodeIDs :
          /\ a # b
          /\ \E j \in 1..Len(Graph.AdjList[a]) :
                Graph.AdjList[a][j].To = b /\ Graph.AdjList[a][j].Dist = 0
          /\ \E j \in 1..Len(Graph.AdjList[b]) :
                Graph.AdjList[b][j].To = a /\ Graph.AdjList[b][j].Dist = 0


(***************************************************************************)
(* C21: every edge stored by either loader, supplied or made as a reverse  *)
(* edge, has ModeMask = ParseModes(Modes); so for every allowed mask       *)
(* GetNeighbors returns an edge iff FilterModesByMask of its modes is not  *)
(* empty, no segment is priced by the walking fallback for an empty mode   *)
(* list, and in every returned segment UsedMode is a mode of the edge that *)
(* the mask allows and Modes is the edge's mode list restricted, in order, *)
(* to the allowed modes.                                                   *)
(***************************************************************************)
AllowedNames(mask) == {n \in ModeNames : BitAnd(BitOfName[n], mask) # 0}

AllowedOf(modes, mask) == SelectSeq(modes, LAMBDA m : m \in AllowedNames(mask))

C21_MaskMatchesModes ==
    /\ Graph # NilGraph =>
          \A id \in AllIDs : \A k \in 1..Len(Graph.AdjList[id]) :
              LET e == Graph.AdjList[id][k]
              IN /\ e.ModeMask = ParseModes(e.Modes)
                 /\ \A mask \in 0..31 :
                       (\E j \in 1..Len(GetNeighbors(Graph, id, mask)) :
                            GetNeighbors(Graph, id, mask)[j] = e)
                       <=> FilterModesByMask(e.Modes, mask) # <<>>
    /\ (Done(1) /\ Res(1).Found) =>
          \A i \in 1..Len(Res(1).Segments) :
              LET sg == Res(1).Segments[i]
                  e == inv[1].prevEdge[sg.ToID]
              IN /\ sg.Modes # <<>>
                 /\ sg.Modes = AllowedOf(e.Modes, inv[1].modeMask)
                 /\ sg.UsedMode \in ModeSet(e.Modes)
                 /\ sg.UsedMode \in AllowedNames(inv[1].modeMask)

\* C21: a route over an edge whose mode list holds a name that is no mode
\* and a mode the query does not allow, on a graph with a reverse edge made
\* from an edge that also carries a bus
C21_Witness ==
    /\ Done(1)
    /\ Res(1).Found
    /\ \E i \in 1..Len(Res(1).Segments) :
          LET e == inv[1].prevEdge[Res(1).Segments[i].ToID]
          IN /\ "train" \in ModeSet(e.Modes)
             /\ "bus" \in ModeSet(e.Modes)
             /\ Res(1).Segments[i].Modes = <<"walk">>
    /\ \E k \in 1..Len(made) : "bus" \in ModeSet(made[k].fwd.Modes)


(***************************************************************************)
(* C22: the initial import is all-or-nothing across restarts: once a run   *)
(* of InitDB has ended without a failed import, a database whose nodes     *)
(* table is not empty holds the edges of map_data.json as well, also when  *)
(* an earlier run's import failed between the nodes and the edges; and the *)
(* graph the server then publishes holds the map's edges.                  *)
(***************************************************************************)
C22_ImportAllOrNothing ==
    /\ (srv.phase \in {"boot", "returned", "serving"}
           /\ srv.imported \in {"", "skipped"} /\ Len(db.nodes) > 0) =>
          db.edges = input
    /\ (srv.phase = "serving"
           /\ srv.imported \in {"", "skipped"} /\ Len(db.nodes) > 0) =>
          \A i \in 1..Len(input) : HoldsEdge(Graph, input[i])


====
